---- MODULE Spec2Model ----
(***************************************************************************)
(* A model of cleaner_multi.py: the scan cache, the import resolver, the   *)
(* dependency graph, the snapshot store and the guarded mutating commands. *)
(*                                                                         *)
(* Text is modelled at token level: a Python string is a sequence of       *)
(* tokens, where "/" and "." and " " are tokens of their own and every     *)
(* other token is a word holding none of them.  Concatenation, prefix,     *)
(* suffix, substring, split and replace are then the sequence operations.  *)
(* Paths are POSIX paths (os.sep = "/").                                   *)
(***************************************************************************)
EXTENDS Integers, Sequences, FiniteSets, TLC

VARIABLES
    tree,        \* project files on disk: path -> [text, mtime]
    cache,       \* the cache file CACHE_FILE
    store,       \* BACKUP_DIR: the set of snapshot directories
    clock,       \* wall clock in seconds, what now_ts() formats
    stamp,       \* source of fresh modification times
    pc,          \* position of the running command
    cmd,         \* the running command and its arguments
    preview,     \* the command's preview / affected list
    idx,         \* loop index into preview (mutation loop, dead-file prompts)
    to_delete,   \* detect_and_handle_dead: the files selected so far
    graph,       \* result of analyze_project of the running command
    result,      \* what create_snapshot / undo_last returned to the command
    runs,        \* number of commands started
    born,        \* number of snapshot directories ever created
    hist         \* history of the running command (for the properties)

vars == <<tree, cache, store, clock, stamp, pc, cmd, preview, idx, to_delete,
          graph, result, runs, born, hist>>

-----------------------------------------------------------------------------
(* Bounds of the model *)

MaxRuns == 2
MaxClock == 1
MaxCreates == 2
MaxStamp == 2
MaxScans == 3
MaxFiles == 2

-----------------------------------------------------------------------------
(* Strings as token sequences *)

SEP == "/"
DOT == "."
SPACE == " "
None == <<>>

Min(S) == CHOOSE i \in S : \A j \in S : i <= j
Max(S) == CHOOSE i \in S : \A j \in S : j <= i

StartsWith(s, p) == Len(s) >= Len(p) /\ SubSeq(s, 1, Len(p)) = p
EndsWith(s, p) == Len(s) >= Len(p) /\ SubSeq(s, Len(s) - Len(p) + 1, Len(s)) = p
Contains(s, p) == \E i \in 1..(Len(s) - Len(p) + 1) : SubSeq(s, i, i + Len(p) - 1) = p
HasTok(s, t) == \E i \in 1..Len(s) : s[i] = t

\* str.replace(old, new): leftmost non-overlapping occurrences.
RECURSIVE Replace(_, _, _)
Replace(s, old, new) ==
    IF old = <<>> \/ Len(s) < Len(old) THEN s
    ELSE IF StartsWith(s, old)
         THEN new \o Replace(SubSeq(s, Len(old) + 1, Len(s)), old, new)
         ELSE <<Head(s)>> \o Replace(Tail(s), old, new)

\* str.strip(): leading and trailing blanks dropped.
RECURSIVE Strip(_)
Strip(s) ==
    IF s = <<>> THEN s
    ELSE IF Head(s) = SPACE THEN Strip(Tail(s))
    ELSE IF s[Len(s)] = SPACE THEN Strip(SubSeq(s, 1, Len(s) - 1))
    ELSE s

\* str.split("/")
RECURSIVE Split(_)
Split(p) ==
    LET S == {i \in 1..Len(p) : p[i] = SEP}
    IN IF S = {} THEN <<p>>
       ELSE <<SubSeq(p, 1, Min(S) - 1)>> \o Split(SubSeq(p, Min(S) + 1, Len(p)))

\* "/".join(comps)
RECURSIVE JoinSep(_)
JoinSep(comps) ==
    IF comps = <<>> THEN <<>>
    ELSE IF Len(comps) = 1 THEN comps[1]
    ELSE comps[1] \o <<SEP>> \o JoinSep(Tail(comps))

-----------------------------------------------------------------------------
(* posixpath *)

LastSep(p) == LET S == {i \in 1..Len(p) : p[i] = SEP} IN IF S = {} THEN 0 ELSE Max(S)

RECURSIVE RStripSep(_)
RStripSep(p) == IF p # <<>> /\ p[Len(p)] = SEP THEN RStripSep(SubSeq(p, 1, Len(p) - 1)) ELSE p

dirname(p) ==
    LET head == SubSeq(p, 1, LastSep(p))
    IN IF head # <<>> /\ RStripSep(head) # <<>> THEN RStripSep(head) ELSE head

basename(p) == SubSeq(p, LastSep(p) + 1, Len(p))

join(a, b) ==
    IF StartsWith(b, <<SEP>>) THEN b
    ELSE IF a = <<>> \/ EndsWith(a, <<SEP>>) THEN a \o b
    ELSE a \o <<SEP>> \o b

DOTDOT == <<DOT, DOT>>

RECURSIVE NormComps(_, _, _)
NormComps(comps, acc, abs) ==
    IF comps = <<>> THEN acc
    ELSE LET c == Head(comps)
         IN IF c = <<>> \/ c = <<DOT>> THEN NormComps(Tail(comps), acc, abs)
            ELSE IF c # DOTDOT \/ (~abs /\ acc = <<>>)
                      \/ (acc # <<>> /\ acc[Len(acc)] = DOTDOT)
                 THEN NormComps(Tail(comps), Append(acc, c), abs)
            ELSE IF acc # <<>>
                 THEN NormComps(Tail(comps), SubSeq(acc, 1, Len(acc) - 1), abs)
            ELSE NormComps(Tail(comps), acc, abs)

normpath(p) ==
    IF p = <<>> THEN <<DOT>>
    ELSE LET abs == StartsWith(p, <<SEP>>)
             q == (IF abs THEN <<SEP>> ELSE <<>>) \o JoinSep(NormComps(Split(p), <<>>, abs))
         IN IF q = <<>> THEN <<DOT>> ELSE q

\* os.path.splitext(p)[1]: from the last dot of the base name, leading dots apart.
splitext_ext(p) ==
    LET b == basename(p)
        D == {i \in 1..Len(b) : b[i] = DOT}
    IN IF D = {} THEN <<>>
       ELSE IF \E j \in 1..(Max(D) - 1) : b[j] # DOT
            THEN SubSeq(b, Max(D), Len(b))
            ELSE <<>>

\* os.path.relpath(p, start), both relative to the same directory.
CommonLen(a, b) ==
    LET S == {i \in 0..Len(a) : i <= Len(b) /\ SubSeq(a, 1, i) = SubSeq(b, 1, i)}
    IN Max(S)

relpath(p, start) ==
    LET sl == NormComps(Split(start), <<>>, FALSE)
        pl == NormComps(Split(p), <<>>, FALSE)
        i == CommonLen(sl, pl)
        rel == [k \in 1..(Len(sl) - i) |-> DOTDOT] \o SubSeq(pl, i + 1, Len(pl))
    IN IF rel = <<>> THEN <<DOT>> ELSE JoinSep(rel)

-----------------------------------------------------------------------------
(* CONFIG and the globals derived from it *)

PROJECT_ROOT == <<"src">>
BACKUP_DIR == <<"backup_snapshots">>
SAFE_MODE == TRUE
ALLOW_UNDO_COUNT == 12
EXCLUDED_DIRS == {<<"node_modules">>, <<DOT, "git">>, <<"dist">>, <<"build">>,
                  <<"coverage">>, <<DOT, "next">>}

Ext(w) == <<DOT, w>>

Languages == {"javascript", "typescript", "python", "java", "csharp", "cpp", "go", "php"}

\* CFG["file_extensions_map"], each list in its order.
Extensions(lang) ==
    CASE lang = "javascript" -> <<Ext("js"), Ext("jsx"), Ext("mjs"), Ext("cjs")>>
      [] lang = "typescript" -> <<Ext("ts"), Ext("tsx")>>
      [] lang = "python"     -> <<Ext("py")>>
      [] lang = "java"       -> <<Ext("java")>>
      [] lang = "csharp"     -> <<Ext("cs")>>
      [] lang = "cpp"        -> <<Ext("c"), Ext("cpp"), Ext("cc"), Ext("cxx"), Ext("h"), Ext("hpp")>>
      [] lang = "go"         -> <<Ext("go")>>
      [] lang = "php"        -> <<Ext("php")>>

\* EXT_LANG_MAP.get(ext): the language, or NoLang.
NoLang == "none"
EXT_LANG_MAP(ext) ==
    LET L == {l \in Languages : \E i \in 1..Len(Extensions(l)) : Extensions(l)[i] = ext}
    IN IF L = {} THEN NoLang ELSE CHOOSE l \in L : TRUE

detect_language_for_file(path) == EXT_LANG_MAP(splitext_ext(path))

\* fnmatch.fnmatch(name, patt) for patt in SKIP_PATTERNS = [".d.ts", ".spec.", ".test.*"]:
\* a pattern without a wildcard matches only the name equal to it.
SkipName(name) ==
    \/ name = <<DOT, "d", DOT, "ts">>
    \/ name = <<DOT, "spec", DOT>>
    \/ StartsWith(name, <<DOT, "test", DOT>>)

\* Number of import regexes a language's handler holds that carry a capturing group.
NumRegex(lang) ==
    CASE lang \in {"javascript", "typescript"} -> 3
      [] lang = "python" -> 2
      [] OTHER -> 1

-----------------------------------------------------------------------------
(* File text.  A text is a sequence of lines; a line records what the      *)
(* handler's regexes find in it:                                           *)
(*   rx     0 for a line no import regex matches, else the index of the    *)
(*          regex that matches it;                                         *)
(*   spec   the first match's group 1 (for rx = 0: the line's free text);  *)
(*   second group 1 of a second match of the same regex on the same line,  *)
(*          <<>> when there is none;                                       *)
(*   multi  TRUE when the statement is written over several physical       *)
(*          lines: the regex matches it in the whole text (finditer over   *)
(*          the text) and in none of its physical lines (search on a       *)
(*          line);                                                         *)
(*   cm     how many times comment_imports has commented the line out;     *)
(*   name   what an import line holds outside its specifiers (the name the *)
(*          import is bound to), <<>> when the model leaves it out.        *)
(***************************************************************************)

Code(t) == [rx |-> 0, spec |-> t, second |-> <<>>, multi |-> FALSE, cm |-> 0, name |-> <<>>]
Imp(i, s) == [rx |-> i, spec |-> s, second |-> <<>>, multi |-> FALSE, cm |-> 0, name |-> <<>>]
Imp2(i, s, t) == [rx |-> i, spec |-> s, second |-> t, multi |-> FALSE, cm |-> 0, name |-> <<>>]
Multi(i, s) == [rx |-> i, spec |-> s, second |-> <<>>, multi |-> TRUE, cm |-> 0, name |-> <<>>]
ImpAs(i, n, s) == [rx |-> i, spec |-> s, second |-> <<>>, multi |-> FALSE, cm |-> 0, name |-> n]

\* The characters of a physical line: the statement's keyword, then what it names.
LineText(l) == (IF l.rx = 0 THEN <<>> ELSE <<"import">> \o l.name) \o l.spec \o l.second

\* The languages whose import regexes are anchored at the line start (^\s*): a
\* commented-out statement no longer matches them.
Anchored == {"python", "java", "csharp", "cpp"}

\* Group 1 of every match of regex i over the whole text, in text order.
RECURSIVE FindIter(_, _)
FindIter(text, i) ==
    IF text = <<>> THEN <<>>
    ELSE LET l == Head(text)
             here == IF l.rx = i
                     THEN <<l.spec>> \o (IF l.second = <<>> THEN <<>> ELSE <<l.second>>)
                     ELSE <<>>
         IN here \o FindIter(Tail(text), i)

\* rx.search(line) for regex i on one physical line: group 1 of the first match, or None.
Search(line, i) == IF line.rx = i /\ ~line.multi THEN line.spec ELSE None

\* LanguageHandler.extract_imports: every regex in order, every match, non-empty groups.
RECURSIVE ExtractFrom(_, _, _)
ExtractFrom(text, i, n) ==
    IF i > n THEN <<>>
    ELSE SelectSeq(FindIter(text, i), LAMBDA g : g # <<>>) \o ExtractFrom(text, i + 1, n)

extract_imports(lang, text) == ExtractFrom(text, 1, NumRegex(lang))

-----------------------------------------------------------------------------
(* LanguageHandler.resolve_import *)

\* The extension loop shared by the relative and the path-like strategy.
RECURSIVE ProbeExt(_, _, _, _)
ProbeExt(candidate, exts, k, all_files_set) ==
    IF k > Len(exts) THEN None
    ELSE LET ext == exts[k]
             c_ext == IF EndsWith(candidate, ext) THEN candidate ELSE candidate \o ext
             ix == join(candidate, <<"index">> \o ext)
         IN IF normpath(c_ext) \in all_files_set THEN normpath(c_ext)
            ELSE IF normpath(ix) \in all_files_set THEN normpath(ix)
            ELSE ProbeExt(candidate, exts, k + 1, all_files_set)

\* The extension loop of the namespace strategy.
RECURSIVE ProbeNs(_, _, _, _)
ProbeNs(candidate, exts, k, all_files_set) ==
    IF k > Len(exts) THEN None
    ELSE IF normpath(candidate \o exts[k]) \in all_files_set
         THEN normpath(candidate \o exts[k])
         ELSE ProbeNs(candidate, exts, k + 1, all_files_set)

\* A mutant: the relative strategy returns its candidate without the membership test.
resolve_import_unchecked(lang, base_file, imp0, all_files_set) ==
    LET imp == Strip(imp0)
    IN IF imp = <<>> THEN None
       ELSE IF StartsWith(imp, <<DOT>>) \/ StartsWith(imp, <<SEP>>)
            THEN normpath(join(dirname(base_file), imp))
            ELSE None

\* A mutant: the probes look on the disk (os.path.exists) and not in the file set.
resolve_import_on_disk(lang, base_file, imp0, all_files_set) ==
    LET imp == Strip(imp0)
    IN IF imp = <<>> THEN None
       ELSE ProbeExt(normpath(join(dirname(base_file), imp)), Extensions(lang), 1, DOMAIN tree)

\* A mutant: a miss of the path-like strategy is final.
resolve_import_exclusive(lang, base_file, imp0, all_files_set) ==
    LET imp == Strip(imp0)
        exts == Extensions(lang)
    IN IF imp = <<>> THEN None
       ELSE IF StartsWith(imp, <<DOT>>) \/ StartsWith(imp, <<SEP>>)
       THEN LET candidate == normpath(join(dirname(base_file), imp))
                r == ProbeExt(candidate, exts, 1, all_files_set)
            IN IF r # None THEN r
               ELSE IF normpath(candidate) \in all_files_set THEN normpath(candidate)
               ELSE None
       ELSE IF HasTok(imp, SEP)
       THEN ProbeExt(normpath(join(PROJECT_ROOT, imp)), exts, 1, all_files_set)
       ELSE IF HasTok(imp, DOT) /\ lang \in {"java", "csharp"}
       THEN ProbeNs(normpath(join(PROJECT_ROOT, Replace(imp, <<DOT>>, <<SEP>>))),
                    exts, 1, all_files_set)
       ELSE None

resolve_import(lang, base_file, imp0, all_files_set) ==
    LET imp == Strip(imp0)
        exts == Extensions(lang)
    IN IF imp = <<>> THEN None
       ELSE IF StartsWith(imp, <<DOT>>) \/ StartsWith(imp, <<SEP>>)
       THEN LET candidate == normpath(join(dirname(base_file), imp))
                r == ProbeExt(candidate, exts, 1, all_files_set)
            IN IF r # None THEN r
               ELSE IF normpath(candidate) \in all_files_set THEN normpath(candidate)
               ELSE None
       ELSE LET r == IF HasTok(imp, SEP)
                     THEN ProbeExt(normpath(join(PROJECT_ROOT, imp)), exts, 1, all_files_set)
                     ELSE None
            IN IF r # None THEN r
               ELSE IF HasTok(imp, DOT) /\ lang \in {"java", "csharp"}
                    THEN ProbeNs(normpath(join(PROJECT_ROOT, Replace(imp, <<DOT>>, <<SEP>>))),
                                 exts, 1, all_files_set)
                    ELSE None

-----------------------------------------------------------------------------
(* The disk.  WalkOrder lists every path of the model's universe in the    *)
(* order os.walk meets it: the files of a directory before its             *)
(* subdirectories.                                                         *)

F_A == <<"src", SEP, "a", DOT, "js">>
F_B == <<"src", SEP, "b", DOT, "js">>
F_C == <<"src", SEP, "c", DOT, "js">>
F_M == <<"src", SEP, "m", DOT, "cs">>
F_LC == <<"src", SEP, "legacy", SEP, "c", DOT, "js">>
F_LI == <<"src", SEP, "legacy", SEP, "index", DOT, "js">>
F_LN == <<"src", SEP, "legacy", SEP, "n", DOT, "cs">>
F_NC == <<"src", SEP, "new", SEP, "c", DOT, "js">>
F_NI == <<"src", SEP, "new", SEP, "index", DOT, "js">>
F_NN == <<"src", SEP, "new", SEP, "n", DOT, "cs">>

WalkOrder == <<F_A, F_B, F_C, F_M, F_LC, F_LI, F_LN, F_NC, F_NI, F_NN>>
Paths == {WalkOrder[i] : i \in 1..Len(WalkOrder)}

\* The cache file: absent, unparsable, or the JSON object {root, files}.
NoFile == [state |-> "nofile", root |-> <<>>, files |-> <<>>]
Corrupt == [state |-> "corrupt", root |-> <<>>, files |-> <<>>]
CacheOf(root, entries) == [state |-> "json", root |-> root, files |-> entries]

Exists(p) == p \in DOMAIN tree
IsDir(d) == \E p \in DOMAIN tree : StartsWith(p, d \o <<SEP>>)
Under(d) == {p \in DOMAIN tree : StartsWith(p, d \o <<SEP>>)}

\* The walk of build_file_list: excluded directories pruned, skip patterns and
\* unknown extensions dropped.
Scannable(root, p) ==
    LET comps == Split(relpath(p, root))
    IN /\ StartsWith(p, root \o <<SEP>>)
       /\ \A i \in 1..(Len(comps) - 1) : comps[i] \notin EXCLUDED_DIRS
       /\ ~SkipName(basename(p))
       /\ EXT_LANG_MAP(splitext_ext(basename(p))) # NoLang

Walk(root) == SelectSeq(WalkOrder, LAMBDA p : Exists(p) /\ Scannable(root, p))

CacheValid(root) ==
    /\ cache.state = "json"
    /\ cache.root = root
    /\ \A i \in 1..Len(cache.files) :
          /\ Exists(cache.files[i].path)
          /\ tree[cache.files[i].path].mtime = cache.files[i].mtime

\* build_file_list(root, use_cache): the list returned and the cache file left behind.
\* cache_write_ok is FALSE when writing CACHE_FILE raises (swallowed by the code).
build_file_list(root, use_cache, cache_write_ok) ==
    IF use_cache /\ CacheValid(root)
    THEN [files |-> [i \in 1..Len(cache.files) |-> cache.files[i].path], cache |-> cache]
    ELSE LET files == Walk(root)
             entries == [i \in 1..Len(files) |-> [path |-> files[i], mtime |-> tree[files[i]].mtime]]
         IN [files |-> files,
             cache |-> IF cache_write_ok THEN CacheOf(root, entries) ELSE cache]

-----------------------------------------------------------------------------
(* analyze_project *)

Range(s) == {s[i] : i \in 1..Len(s)}

\* A mutant: the edge is recorded in imports_of only.
AddEdgeOneWay(g, f, target) ==
    [g EXCEPT !.imports_of[f] = @ \cup {target}]

\* Lines 309-310: both directions of a resolved edge.
AddEdge(g, f, target) ==
    [g EXCEPT !.referenced_by[target] = @ \cup {f}, !.imports_of[f] = @ \cup {target}]

RECURSIVE AddImports(_, _, _, _)
AddImports(g, f, imps, all_files_set) ==
    IF imps = <<>> THEN g
    ELSE LET target == resolve_import(detect_language_for_file(f), f, Head(imps), all_files_set)
         IN AddImports(IF target = None THEN g ELSE AddEdge(g, f, target),
                       f, Tail(imps), all_files_set)

\* unreadable: the files whose open() raises (the file is skipped).
RECURSIVE AnalyzeFiles(_, _, _, _)
AnalyzeFiles(g, files, all_files_set, unreadable) ==
    IF files = <<>> THEN g
    ELSE LET f == Head(files)
             lang == detect_language_for_file(f)
             g1 == IF lang = NoLang \/ f \in unreadable \/ ~Exists(f) THEN g
                   ELSE AddImports(g, f, extract_imports(lang, tree[f].text), all_files_set)
         IN AnalyzeFiles(g1, Tail(files), all_files_set, unreadable)

\* A mutant: a file that cannot be read is no resolution target either.
analyze_project_readable_targets(all_files, unreadable) ==
    LET S == Range(all_files)
        g0 == [files |-> all_files,
               referenced_by |-> [f \in S |-> {}],
               imports_of |-> [f \in S |-> {}]]
    IN AnalyzeFiles(g0, all_files, S \ unreadable, unreadable)

analyze_project(all_files, unreadable) ==
    LET S == Range(all_files)
        g0 == [files |-> all_files,
               referenced_by |-> [f \in S |-> {}],
               imports_of |-> [f \in S |-> {}]]
    IN AnalyzeFiles(g0, all_files, S, unreadable)

-----------------------------------------------------------------------------
(* backup / snapshot / undo.  A snapshot directory is                      *)
(*   [ts, label, tree, meta, born]: its name is ts followed by label (the  *)
(* label with its blanks removed), tree is the copy it holds, meta tells   *)
(* whether .snapshot_meta.json was written, born is the order of creation  *)
(* (not on disk: kept for the properties).                                 *)

\* Every token a snapshot name can hold, in the order of Python's string comparison.
TokOrder == <<SPACE, DOT, SEP, "Pages", "a", "b", "c", "comment_imports_", "cs",
              "delete_dead_files", "index", "j", "java", "js", "legacy", "lib", "m", "move_",
              "n", "new", "pages", "remove_folder_", "remove_imports_", "routes", "server",
              "src", "ts">>
TokRank(t) == CHOOSE i \in 1..Len(TokOrder) : TokOrder[i] = t

RECURSIVE LexLess(_, _)
LexLess(a, b) ==
    IF b = <<>> THEN FALSE
    ELSE IF a = <<>> THEN TRUE
    ELSE IF Head(a) = Head(b) THEN LexLess(Tail(a), Tail(b))
    ELSE TokRank(Head(a)) < TokRank(Head(b))

\* Order of the directory names: the timestamp is of fixed width.
NameLess(x, y) == x.ts < y.ts \/ (x.ts = y.ts /\ LexLess(x.label, y.label))

\* sorted(..., reverse=True)
RECURSIVE SortDesc(_)
SortDesc(S) ==
    IF S = {} THEN <<>>
    ELSE LET m == CHOOSE x \in S : \A y \in S : y = x \/ NameLess(y, x)
         IN <<m>> \o SortDesc(S \ {m})

list_snapshots(st) == SortDesc(st)

\* trim_snapshots: everything after the first ALLOW_UNDO_COUNT of the list is removed.
trim_snapshots(st) ==
    LET snaps == list_snapshots(st)
    IN IF Len(snaps) <= ALLOW_UNDO_COUNT THEN st
       ELSE {snaps[i] : i \in 1..ALLOW_UNDO_COUNT}

\* name = f"{ts}{label}".replace(" ", "")
SnapLabel(label) == Replace(label, <<SPACE>>, <<>>)

\* create_snapshot(label).  copy_fail is the project file whose copy raises (None: no
\* failure).  copytree raises FileExistsError before copying when the name is taken;
\* a failing file is left out, the others are copied, and the error is raised at the
\* end: no metadata, no trim.
create_snapshot(label, copy_fail) ==
    LET name == SnapLabel(label)
        taken == \E d \in store : d.ts = clock /\ d.label = name
        dir(t, m) == [ts |-> clock, label |-> name, tree |-> t, meta |-> m, born |-> born + 1]
    IN IF taken THEN [ok |-> FALSE, store |-> store, born |-> born]
       ELSE IF copy_fail \in DOMAIN tree
       THEN [ok |-> FALSE,
             store |-> store \cup {dir([p \in DOMAIN tree \ {copy_fail} |-> tree[p]], FALSE)},
             born |-> born + 1]
       ELSE [ok |-> TRUE,
             store |-> trim_snapshots(store \cup {dir(tree, TRUE)}),
             born |-> born + 1]

\* The top-level entry of PROJECT_ROOT that holds p, and whether it is a directory.
Entry(p) == Split(relpath(p, PROJECT_ROOT))[1]
EntryIsDir(t, e) == \E p \in DOMAIN t : Entry(p) = e /\ Len(Split(relpath(p, PROJECT_ROOT))) > 1

\* os.listdir(last), in walk order.
RECURSIVE EntriesOf(_, _)
EntriesOf(t, order) ==
    IF order = <<>> THEN <<>>
    ELSE LET rest == EntriesOf(t, Tail(order))
             e == Entry(Head(order))
         IN IF Head(order) \in DOMAIN t
            THEN <<e>> \o SelectSeq(rest, LAMBDA x : x # e)
            ELSE rest

\* The copy loop of undo_last: root holds `cur`; copytree raises when the target exists.
RECURSIVE CopyBack(_, _, _)
CopyBack(cur, last, entries) ==
    IF entries = <<>> THEN [ok |-> TRUE, tree |-> cur]
    ELSE LET e == Head(entries)
             src == {p \in DOMAIN last : Entry(p) = e}
         IN IF EntryIsDir(last, e) /\ \E p \in DOMAIN cur : Entry(p) = e
            THEN [ok |-> FALSE, tree |-> cur]
            ELSE CopyBack([p \in DOMAIN cur \cup src |-> IF p \in src THEN last[p] ELSE cur[p]],
                          last, Tail(entries))

\* A mutant: the root is emptied before the store is looked at.
undo_last_unguarded(stuck) ==
    LET snaps == list_snapshots(store)
        left == [p \in {q \in DOMAIN tree : Entry(q) = stuck} |-> tree[p]]
    IN IF snaps = <<>> THEN [ok |-> FALSE, tree |-> left]
       ELSE CopyBack(left, snaps[1].tree, EntriesOf(snaps[1].tree, WalkOrder))

\* undo_last().  stuck is the top-level entry whose removal raises (None: none); the
\* code swallows that error and goes on.
undo_last(stuck) ==
    LET snaps == list_snapshots(store)
    IN IF snaps = <<>> THEN [ok |-> FALSE, tree |-> tree]
       ELSE LET last == snaps[1].tree
                left == [p \in {q \in DOMAIN tree : Entry(q) = stuck} |-> tree[p]]
            IN CopyBack(left, last, EntriesOf(last, WalkOrder))

-----------------------------------------------------------------------------
(* detect_dead_files *)

\* sorted() of a set of paths.
RECURSIVE SortPaths(_)
SortPaths(S) ==
    IF S = {} THEN <<>>
    ELSE LET m == CHOOSE x \in S : \A y \in S : y = x \/ LexLess(x, y)
         IN <<m>> \o SortPaths(S \ {m})

EntryNames == {<<"app", DOT, "py">>, <<"main", DOT, "py">>, <<"index", DOT, "js">>,
               <<"index", DOT, "ts">>, <<"server", DOT, "js">>}

\* str.lower(), token by token (the words of the model are lower case but for "Pages").
Lower(s) == [i \in 1..Len(s) |-> IF s[i] = "Pages" THEN "pages" ELSE s[i]]

\* The body of the loop of detect_dead_files: path_norm and basename are lower-cased,
\* the language is that of the path as given.
IsDead(f, referenced_by) ==
    LET path_norm == Lower(f)
        base == Lower(basename(f))
    IN /\ referenced_by[f] = {}
       /\ ~Contains(path_norm, <<SEP, "pages", SEP>>)
       /\ ~Contains(path_norm, <<SEP, "routes", SEP>>)
       /\ ~StartsWith(base, <<"index", DOT>>)
       /\ base \notin EntryNames
       /\ ~(detect_language_for_file(f) = "java"
            /\ (Contains(path_norm, <<SEP, "src", SEP, "main", SEP>>)
                \/ Contains(path_norm, <<SEP, "src", SEP>>)))

detect_dead_files(all_files, referenced_by) ==
    SortPaths({f \in Range(all_files) : IsDead(f, referenced_by)})

-----------------------------------------------------------------------------
(* The commands.  One command runs at a time (one process per command).    *)
(* Each step that does I/O under a try/except draws from the environment   *)
(* whether that I/O raises.                                                *)

\* The files whose copy, or whose removal, the environment may make fail.
FaultPaths == {F_A, F_LC}
\* A read or a write of the file at hand: fine, or raising.
IO == {"ok", "read_fails", "write_fails"}

Folders == {<<"legacy">>, <<"new">>}
Moves == {<< <<"legacy", SEP, "c", DOT, "js">>, <<"c", DOT, "js">> >>,
          << <<"legacy", SEP, "c", DOT, "js">>, <<"new", SEP, "c", DOT, "js">> >>,
          << <<"legacy">>, <<"new">> >>}
Answers == {"yes", "no", "empty", "exit"}

NoCmd == [name |-> "none", a |-> <<>>, b |-> <<>>, dry |-> FALSE, yes |-> FALSE,
          use_cache |-> TRUE]
Command(name, a, b, dry, yes, use_cache) ==
    [name |-> name, a |-> a, b |-> b, dry |-> dry, yes |-> yes, use_cache |-> use_cache]

NoGraph == [files |-> <<>>, referenced_by |-> <<>>, imports_of |-> <<>>]

\* The history of a command that starts now: the disk as it was, the steps taken
\* (preview, confirm, snapshot, mutate), what create_snapshot did, the answers given
\* and whether the process ended in a prompt, the files written, whether a read
\* or write of the mutation loop raised, and the files whose read or write did.
Hist0 == [tree0 |-> tree, store0 |-> store, cache0 |-> cache, steps |-> <<>>,
          snap |-> "none", snapTree |-> tree, exited |-> FALSE, ans |-> "none",
          asked |-> 0, wrote |-> {}, raised |-> FALSE, failed |-> {}]

Step(h, s) == IF h.steps # <<>> /\ h.steps[Len(h.steps)] = s THEN h
              ELSE [h EXCEPT !.steps = Append(@, s)]

\* A mutant: the prompt is shown even when --yes was given.
NextAfterPreview_AlwaysAsk(dry, yes) ==
    IF dry THEN "idle" ELSE "confirm"

\* A mutant: `if dry_run: return` is left out.
NextAfterPreview_IgnoreDry(dry, yes) ==
    IF SAFE_MODE /\ ~yes THEN "confirm" ELSE "snapshot"

\* Where a command goes after show_preview: `if dry_run: return`, then
\* `if SAFE_MODE and not assume_yes:` the prompt, else the snapshot.
NextAfterPreview(dry, yes) ==
    IF dry THEN "idle"
    ELSE IF SAFE_MODE /\ ~yes THEN "confirm"
    ELSE "snapshot"

\* ask_yes_no: "" gives the default (False), an answer starting with "s" gives True.
Truth(ans) == ans = "yes"

\* What an answer at a prompt leads to: the exit words end the process inside
\* safe_input (sys.exit(0)); a yes goes on to the snapshot; a no returns.
AnswerOutcome(ans) ==
    IF ans = "exit" THEN [pc |-> "idle", exited |-> TRUE]
    ELSE IF Truth(ans) THEN [pc |-> "snapshot", exited |-> FALSE]
    ELSE [pc |-> "idle", exited |-> FALSE]

\* The label handed to create_snapshot.
Label(c) ==
    CASE c.name = "comment_imports" -> <<"comment_imports_">> \o c.a
      [] c.name = "remove_imports" -> <<"remove_imports_">> \o c.a
      [] c.name = "remove_folder" -> <<"remove_folder_">> \o c.a
      [] c.name = "move" -> <<"move_">> \o basename(c.a)
      [] c.name = "dead" -> <<"delete_dead_files">>

\* Where a command goes after create_snapshot: its mutation (the return value of
\* create_snapshot is not looked at).
NextAfterSnapshot(c, pv) ==
    CASE c.name \in {"comment_imports", "remove_imports"} -> IF pv = <<>> THEN "idle" ELSE "rewrite"
      [] c.name = "remove_folder" -> "rmtree"
      [] c.name = "move" -> "move"
      [] c.name = "dead" -> "delete"

-----------------------------------------------------------------------------
(* Previews *)

\* comment_imports, lines 480-506: a file is previewed when some physical line has a
\* first regex match whose group names the folder.
CommentPreviewed(f, folder) ==
    \E i \in 1..Len(tree[f].text) :
        LET l == tree[f].text[i]
        IN l.rx > 0 /\ ~l.multi /\ Contains(l.spec, folder)

\* remove_imports, lines 553-571: a file is previewed when some match over the whole
\* text has a group naming the folder.
RemovePreviewed(f, folder) ==
    \E i \in 1..Len(tree[f].text) :
        LET l == tree[f].text[i]
        IN l.rx > 0 /\ (Contains(l.spec, folder) \/ (l.second # <<>> /\ Contains(l.second, folder)))

\* move_and_fix, lines 694-707: the files with an import resolving to the source or
\* into it.
Affected(all_files, abs_src) ==
    LET S == Range(all_files)
    IN {f \in S :
          /\ Exists(f)
          /\ detect_language_for_file(f) # NoLang
          /\ LET imps == extract_imports(detect_language_for_file(f), tree[f].text)
             IN \E i \in 1..Len(imps) :
                  LET target == resolve_import(detect_language_for_file(f), f, imps[i], S)
                  IN target # None
                     /\ (target = abs_src \/ StartsWith(target, abs_src \o <<SEP>>))}

-----------------------------------------------------------------------------
(* Starting a command *)

Start(c, pv, next, scan, g, h) ==
    /\ pc = "idle"
    /\ runs < MaxRuns
    /\ runs' = runs + 1
    /\ cmd' = c
    /\ preview' = pv
    /\ idx' = 1
    /\ to_delete' = IF c.name = "dead" /\ next = "snapshot" THEN pv ELSE <<>>
    /\ graph' = g
    /\ result' = "none"
    /\ cache' = scan.cache
    /\ pc' = next
    /\ hist' = h
    /\ UNCHANGED <<tree, store, clock, stamp, born>>

Scanned(use_cache) == build_file_list(PROJECT_ROOT, use_cache, TRUE)
NoScan == [files |-> <<>>, cache |-> cache]
Readable(files) == SelectSeq(files, LAMBDA f : Exists(f) /\ detect_language_for_file(f) # NoLang)

Begin_comment_imports ==
    \E folder \in Folders, dry \in BOOLEAN, yes \in BOOLEAN :
        LET scan == Scanned(TRUE)
            pv == SelectSeq(Readable(scan.files), LAMBDA f : CommentPreviewed(f, folder))
        IN Start(Command("comment_imports", folder, <<>>, dry, yes, TRUE), pv,
                 NextAfterPreview(dry, yes), scan, NoGraph, Step(Hist0, "preview"))

Begin_remove_imports ==
    \E folder \in Folders, dry \in BOOLEAN, yes \in BOOLEAN :
        LET scan == Scanned(TRUE)
            pv == SelectSeq(Readable(scan.files), LAMBDA f : RemovePreviewed(f, folder))
        IN Start(Command("remove_imports", folder, <<>>, dry, yes, TRUE), pv,
                 NextAfterPreview(dry, yes), scan, NoGraph, Step(Hist0, "preview"))

\* remove_folder: `if not os.path.isdir(path): return` comes before the preview.
Begin_remove_folder ==
    \E folder \in Folders, dry \in BOOLEAN, yes \in BOOLEAN :
        LET path == join(PROJECT_ROOT, folder)
            c == Command("remove_folder", folder, <<>>, dry, yes, TRUE)
        IN IF ~IsDir(path)
           THEN Start(c, <<>>, "idle", NoScan, NoGraph, Hist0)
           ELSE Start(c, SelectSeq(WalkOrder, LAMBDA p : p \in Under(path)),
                      NextAfterPreview(dry, yes), NoScan, NoGraph, Step(Hist0, "preview"))

SourceExists_Always(abs_src) == TRUE

\* os.path.exists(abs_src): a file or a directory of that name.
SourceExists(abs_src) == Exists(abs_src) \/ IsDir(abs_src)

\* move_and_fix: `if not os.path.exists(abs_src): return` comes before the scan.
Begin_move_and_fix ==
    \E m \in Moves, dry \in BOOLEAN, yes \in BOOLEAN :
        LET abs_src == normpath(join(PROJECT_ROOT, m[1]))
            c == Command("move", m[1], m[2], dry, yes, TRUE)
            scan == Scanned(TRUE)
        IN IF ~SourceExists(abs_src)
           THEN Start(c, <<>>, "idle", NoScan, NoGraph, Hist0)
           ELSE Start(c, SortPaths(Affected(scan.files, abs_src)),
                      NextAfterPreview(dry, yes), scan, NoGraph, Step(Hist0, "preview"))

\* detect_and_handle_dead up to its first prompt.
Begin_dead ==
    \E dry \in BOOLEAN, yes \in BOOLEAN, use_cache \in BOOLEAN :
        LET scan == Scanned(use_cache)
            g == analyze_project(scan.files, {})
            dead == detect_dead_files(scan.files, g.referenced_by)
            next == IF dead = <<>> \/ dry THEN "idle"
                    ELSE IF SAFE_MODE /\ ~yes THEN "ask"
                    ELSE "snapshot"
        IN Start(Command("dead", <<>>, <<>>, dry, yes, use_cache), dead, next, scan, g,
                 Step(Hist0, "preview"))

\* The scan command: analyze_project and the dead-file report.
Begin_scan ==
    \E use_cache \in BOOLEAN, unreadable \in {{}, {F_LC}} :
        LET scan == Scanned(use_cache)
            g == analyze_project(scan.files, unreadable)
        IN Start(Command("scan", <<>>, <<>>, FALSE, FALSE, use_cache),
                 detect_dead_files(scan.files, g.referenced_by), "idle", scan, g,
                 [Hist0 EXCEPT !.failed = unreadable])

-----------------------------------------------------------------------------
(* Prompts *)

\* The single confirmation of comment_imports, remove_imports, remove_folder, move_and_fix.
AskYesNo ==
    \E ans \in Answers :
        LET o == AnswerOutcome(ans)
        IN /\ pc = "confirm"
           /\ pc' = o.pc
           /\ hist' = [Step(hist, "confirm") EXCEPT !.ans = ans, !.asked = @ + 1,
                                                    !.exited = o.exited]
           /\ UNCHANGED <<tree, cache, store, clock, stamp, cmd, preview, idx, to_delete,
                          graph, result, runs, born>>

\* A mutant: whatever the answer, the file is selected.
DeadOutcome_SelectAll(ans) ==
    LET sel == Append(to_delete, preview[idx])
    IN IF idx < Len(preview)
       THEN [pc |-> "ask", exited |-> FALSE, to_delete |-> sel, idx |-> idx + 1]
       ELSE [pc |-> "snapshot", exited |-> FALSE, to_delete |-> sel, idx |-> 1]

\* What an answer to "Apagar este arquivo?" leads to (lines 645-654).
DeadOutcome(ans) ==
    LET sel == IF Truth(ans) THEN Append(to_delete, preview[idx]) ELSE to_delete
    IN IF ans = "exit" THEN [pc |-> "idle", exited |-> TRUE, to_delete |-> to_delete, idx |-> idx]
       ELSE IF idx < Len(preview)
            THEN [pc |-> "ask", exited |-> FALSE, to_delete |-> sel, idx |-> idx + 1]
       ELSE IF sel = <<>>
            THEN [pc |-> "idle", exited |-> FALSE, to_delete |-> sel, idx |-> 1]
       ELSE [pc |-> "snapshot", exited |-> FALSE, to_delete |-> sel, idx |-> 1]

\* The per-file prompt of detect_and_handle_dead.
AskDead ==
    \E ans \in Answers :
        LET o == DeadOutcome(ans)
        IN /\ pc = "ask"
           /\ pc' = o.pc
           /\ to_delete' = o.to_delete
           /\ idx' = o.idx
           /\ hist' = [Step(hist, "confirm") EXCEPT !.ans = ans, !.asked = @ + 1,
                                                    !.exited = o.exited]
           /\ UNCHANGED <<tree, cache, store, clock, stamp, cmd, preview, graph, result,
                          runs, born>>

-----------------------------------------------------------------------------
(* The snapshot step and the mutations *)

Snapshot ==
    /\ pc = "snapshot"
    /\ \E copy_fail \in {None} \cup FaultPaths :
       LET r == create_snapshot(Label(cmd), copy_fail)
       IN /\ store' = r.store
          /\ born' = r.born
          /\ result' = IF r.ok THEN "snapshot" ELSE "nosnapshot"
          /\ hist' = [Step(hist, "snapshot") EXCEPT !.snap = IF r.ok THEN "ok" ELSE "failed",
                                                    !.snapTree = IF r.ok THEN tree ELSE @]
    /\ pc' = NextAfterSnapshot(cmd, preview)
    /\ UNCHANGED <<tree, cache, clock, stamp, cmd, preview, idx, to_delete, graph, runs>>

\* open(f, "w") and the write: the new text with a fresh modification time.
WriteFile(f, text) == [p \in DOMAIN tree \cup {f} |-> IF p = f THEN [text |-> text, mtime |-> stamp]
                                                       ELSE tree[p]]

\* comment_imports, lines 525-541: a line some regex matches and that holds the folder
\* is commented out.
CommentLine(l, lang) == [l EXCEPT !.cm = @ + 1, !.rx = IF lang \in Anchored THEN 0 ELSE @]
CommentText(text, folder, lang) ==
    [i \in 1..Len(text) |->
        IF text[i].rx > 0 /\ ~text[i].multi /\ Contains(LineText(text[i]), folder)
        THEN CommentLine(text[i], lang) ELSE text[i]]

\* remove_imports, lines 590-601: a line whose first match of some regex names the
\* folder is dropped.
RemoveText(text, folder) ==
    SelectSeq(text, LAMBDA l : ~(l.rx > 0 /\ ~l.multi /\ Contains(l.spec, folder)))

AfterFile_StopOnFailure(more, failed_here, loop) ==
    IF more /\ ~failed_here THEN loop ELSE "idle"

\* The end of one turn of a mutation loop: `continue` after a failing read, the
\* logged exception of a failing write, or the end of the body all lead to the next
\* file, and to the end of the command after the last.
AfterFile(more, failed_here, loop) == IF more THEN loop ELSE "idle"

\* One turn of the loop `for f in preview` of comment_imports and remove_imports.
Rewrite ==
    /\ pc = "rewrite"
    /\ \E io \in IO :
       LET f == preview[idx]
           readable == Exists(f) /\ io # "read_fails"
           old == tree[f].text
           new == IF cmd.name = "comment_imports"
                  THEN CommentText(old, cmd.a, detect_language_for_file(f))
                  ELSE RemoveText(old, cmd.a)
           written == readable /\ new # old /\ io # "write_fails"
           failed_here == ~readable \/ (new # old /\ io = "write_fails")
       IN /\ tree' = IF written THEN WriteFile(f, new) ELSE tree
          /\ stamp' = IF written THEN stamp + 1 ELSE stamp
          /\ hist' = [Step(hist, "mutate") EXCEPT !.wrote = IF written THEN @ \cup {f} ELSE @,
                                                  !.raised = @ \/ io # "ok",
                                                  !.failed = IF failed_here THEN @ \cup {f} ELSE @]
          /\ pc' = AfterFile(idx < Len(preview), failed_here, "rewrite")
    /\ idx' = idx + 1
    /\ UNCHANGED <<cache, store, clock, cmd, preview, to_delete, graph, result, runs, born>>

\* shutil.rmtree(path) of remove_folder: it raises at the first entry it cannot
\* remove, what it removed before stays removed.
RemoveTree ==
    /\ pc = "rmtree"
    /\ \E stop \in {None} \cup FaultPaths :
       LET path == join(PROJECT_ROOT, cmd.a)
           gone == IF stop \in Under(path)
                   THEN {p \in Under(path) :
                           \E i, j \in 1..Len(WalkOrder) :
                              i < j /\ WalkOrder[i] = p /\ WalkOrder[j] = stop}
                   ELSE Under(path)
       IN tree' = [p \in DOMAIN tree \ gone |-> tree[p]]
    /\ hist' = Step(hist, "mutate")
    /\ pc' = "idle"
    /\ UNCHANGED <<cache, store, clock, stamp, cmd, preview, idx, to_delete, graph, result,
                   runs, born>>


\* shutil.move(abs_src, abs_dest): into an existing directory, else a rename; it raises
\* when the target exists inside that directory, when a directory would replace a
\* file, when the target's directory is missing, or when the environment makes it.
DirExists(d) == d = PROJECT_ROOT \/ IsDir(d)
MoveOutcome(abs_src, abs_dest, env_fails) ==
    LET real == IF IsDir(abs_dest) THEN join(abs_dest, basename(abs_src)) ELSE abs_dest
        moved == IF Exists(abs_src) THEN {abs_src} ELSE Under(abs_src)
        target(p) == real \o SubSeq(p, Len(abs_src) + 1, Len(p))
        fails == \/ env_fails
                 \/ IsDir(abs_dest) /\ (Exists(real) \/ IsDir(real))
                 \/ IsDir(abs_src) /\ Exists(real)
                 \/ ~DirExists(dirname(real))
        rest == DOMAIN tree \ moved
        landed == {target(p) : p \in moved}
    IN [ok |-> ~fails,
        tree |-> IF fails THEN tree
                 ELSE [q \in rest \cup landed |->
                          IF q \in landed THEN tree[CHOOSE p \in moved : target(p) = q]
                          ELSE tree[q]]]

\* move_and_fix, lines 717-721.
Move ==
    /\ pc = "move"
    /\ \E env_fails \in BOOLEAN :
       LET r == MoveOutcome(normpath(join(PROJECT_ROOT, cmd.a)),
                            normpath(join(PROJECT_ROOT, cmd.b)), env_fails)
       IN /\ tree' = r.tree
          /\ pc' = IF r.ok /\ preview # <<>> THEN "fix" ELSE "idle"
          /\ result' = IF r.ok THEN "moved" ELSE "notmoved"
          /\ hist' = IF r.ok THEN Step(hist, "mutate")
                      ELSE [hist EXCEPT !.raised = @ \/ env_fails]
    /\ UNCHANGED <<cache, store, clock, stamp, cmd, preview, idx, to_delete, graph, runs, born>>

\* txt.replace(old_rel, new_rel) over a whole text.
FixText(text, old_rel, new_rel) ==
    [i \in 1..Len(text) |->
        [text[i] EXCEPT !.spec = Replace(@, old_rel, new_rel),
                        !.second = Replace(@, old_rel, new_rel)]]

\* One turn of the loop `for f in affected` of move_and_fix, lines 724-733.
Fix ==
    /\ pc = "fix"
    /\ \E io \in IO :
       LET f == preview[idx]
           old_rel == relpath(normpath(join(PROJECT_ROOT, cmd.a)), PROJECT_ROOT)
           new_rel == relpath(normpath(join(PROJECT_ROOT, cmd.b)), PROJECT_ROOT)
           written == Exists(f) /\ io = "ok"
       IN /\ tree' = IF written THEN WriteFile(f, FixText(tree[f].text, old_rel, new_rel)) ELSE tree
          /\ stamp' = IF written THEN stamp + 1 ELSE stamp
          /\ hist' = [Step(hist, "mutate") EXCEPT !.wrote = IF written THEN @ \cup {f} ELSE @,
                                                  !.raised = @ \/ io # "ok",
                                                  !.failed = IF written THEN @ ELSE @ \cup {f}]
          /\ pc' = AfterFile(idx < Len(preview), ~written, "fix")
    /\ idx' = idx + 1
    /\ UNCHANGED <<cache, store, clock, cmd, preview, to_delete, graph, result, runs, born>>

\* One turn of the loop `for f in to_delete` of detect_and_handle_dead, lines 655-660.
DeleteDead ==
    /\ pc = "delete"
    /\ \E env_fails \in BOOLEAN :
       LET f == to_delete[idx]
           removed == Exists(f) /\ ~env_fails
       IN tree' = IF removed THEN [p \in DOMAIN tree \ {f} |-> tree[p]] ELSE tree
    /\ hist' = Step(hist, "mutate")
    /\ idx' = idx + 1
    /\ pc' = IF idx < Len(to_delete) THEN "delete" ELSE "idle"
    /\ UNCHANGED <<cache, store, clock, stamp, cmd, preview, to_delete, graph, result, runs, born>>

\* The undo command.
Stuck == {None} \cup {Entry(p) : p \in FaultPaths}
Begin_undo ==
    \E stuck \in Stuck :
        LET r == undo_last(stuck)
        IN /\ pc = "idle"
           /\ runs < MaxRuns
           /\ runs' = runs + 1
           /\ cmd' = Command("undo", <<>>, <<>>, FALSE, FALSE, TRUE)
           /\ tree' = r.tree
           /\ result' = IF r.ok THEN "restored" ELSE "notrestored"
           /\ hist' = Hist0
           /\ preview' = <<>> /\ idx' = 1 /\ to_delete' = <<>> /\ graph' = NoGraph
           /\ UNCHANGED <<cache, store, clock, stamp, pc, born>>

-----------------------------------------------------------------------------
(* Initial states *)

S_LC == <<DOT, SEP, "legacy", SEP, "c">>
S_L == <<DOT, SEP, "legacy">>
S_B == <<DOT, SEP, "b">>
S_C == <<DOT, SEP, "c">>
S_UB == <<DOT, DOT, SEP, "b">>
S_LCJ == <<"legacy", SEP, "c", DOT, "js">>
S_NS == <<"legacy", DOT, "n">>

File(text) == [text |-> text, mtime |-> 0]

TreeA == (F_A :> File(<<Imp(1, S_LC), Code(<<"x">>)>>)) @@ (F_B :> File(<<Multi(1, S_LC)>>))
         @@ (F_LC :> File(<<Imp(2, S_UB)>>))
TreeB == (F_A :> File(<<Imp2(2, S_B, S_LCJ)>>)) @@ (F_B :> File(<<Code(S_LCJ)>>))
         @@ (F_LC :> File(<<>>)) @@ (F_LI :> File(<<Imp(1, S_C)>>))
TreeC == (F_A :> File(<<Imp(1, S_L)>>)) @@ (F_M :> File(<<Imp(1, S_NS)>>))
         @@ (F_LI :> File(<<>>)) @@ (F_LN :> File(<<Code(<<"x">>)>>))
InitTrees == {TreeA, TreeB, TreeC}

InitCommon ==
    /\ cache = NoFile
    /\ clock = 0
    /\ stamp = 1
    /\ pc = "idle"
    /\ cmd = NoCmd
    /\ preview = <<>>
    /\ idx = 1
    /\ to_delete = <<>>
    /\ graph = NoGraph
    /\ result = "none"
    /\ runs = 0

Init ==
    /\ tree \in InitTrees
    /\ store = {}
    /\ born = 0
    /\ InitCommon
    /\ hist = Hist0

\* The commands of one session, run one after the other within one second (the
\* clock moves in SpecSnap below).
Next ==
    \/ Begin_comment_imports
    \/ Begin_remove_imports
    \/ Begin_remove_folder
    \/ Begin_move_and_fix
    \/ Begin_dead
    \/ Begin_scan
    \/ Begin_undo
    \/ AskYesNo
    \/ AskDead
    \/ Snapshot
    \/ Rewrite
    \/ RemoveTree
    \/ Move
    \/ Fix
    \/ DeleteDead

Spec == Init /\ [][Next]_vars

TypeOK ==
    /\ DOMAIN tree \subseteq Paths
    /\ pc \in {"idle", "confirm", "ask", "snapshot", "rewrite", "rmtree", "move", "fix", "delete"}

-----------------------------------------------------------------------------
(* The snapshot store on its own: create_snapshot, edits of the project by *)
(* hand, undo_last and the passing of time, in any order.                  *)

SnapLabels == {<<"a">>, <<"b">>, <<"a", SPACE>>}
EditPaths == {F_A, F_NC}
EditText == <<Code(<<"y">>)>>
StuckEntries == {None, Entry(F_NC)}

\* A store left by earlier runs: one snapshot short of the retention count, each
\* taken in a second of its own before the clock of the model starts.
OldSnaps ==
    {[ts |-> i - ALLOW_UNDO_COUNT, label |-> <<"a">>, tree |-> TreeA, meta |-> TRUE, born |-> i] :
        i \in 1..(ALLOW_UNDO_COUNT - 1)}

InitSnap ==
    /\ tree = TreeA
    /\ store \in {{}, OldSnaps}
    /\ born = Cardinality(store)
    /\ InitCommon
    /\ hist = Hist0

\* A call of create_snapshot(label).
SnapCreate ==
    \E label \in SnapLabels, copy_fail \in {None, F_A} :
        LET r == create_snapshot(label, copy_fail)
        IN /\ runs < MaxCreates
           /\ runs' = runs + 1
           /\ store' = r.store
           /\ born' = r.born
           /\ result' = IF r.ok THEN "snapshot" ELSE "nosnapshot"
           /\ cmd' = Command("create", <<>>, <<>>, FALSE, FALSE, TRUE)
           /\ hist' = [hist EXCEPT !.snap = IF r.ok THEN "ok" ELSE "failed",
                                   !.snapTree = IF r.ok THEN tree ELSE @]
           /\ UNCHANGED <<tree, cache, clock, stamp, pc, preview, idx, to_delete, graph>>

\* The user deletes a file of the project.
SnapDelete ==
    \E p \in EditPaths :
        /\ Exists(p)
        /\ tree' = [q \in DOMAIN tree \ {p} |-> tree[q]]
        /\ cmd' = Command("edit", <<>>, <<>>, FALSE, FALSE, TRUE)
        /\ UNCHANGED <<cache, store, clock, stamp, pc, preview, idx, to_delete, graph,
                       result, runs, born, hist>>

\* The user modifies a file of the project, or adds one.
SnapWrite ==
    \E p \in EditPaths :
        /\ stamp < MaxStamp
        /\ tree' = WriteFile(p, EditText)
        /\ stamp' = stamp + 1
        /\ cmd' = Command("edit", <<>>, <<>>, FALSE, FALSE, TRUE)
        /\ UNCHANGED <<cache, store, clock, pc, preview, idx, to_delete, graph,
                       result, runs, born, hist>>

\* A call of undo_last().
SnapUndo ==
    \E stuck \in StuckEntries :
        LET r == undo_last(stuck)
        IN /\ tree' = r.tree
           /\ result' = IF r.ok THEN "restored" ELSE "notrestored"
           /\ cmd' = Command("undo", <<>>, <<>>, FALSE, FALSE, TRUE)
           /\ UNCHANGED <<cache, store, clock, stamp, pc, preview, idx, to_delete, graph,
                          runs, born, hist>>

\* A second passes.
Tick ==
    /\ clock < MaxClock
    /\ clock' = clock + 1
    /\ UNCHANGED <<tree, cache, store, stamp, pc, cmd, preview, idx, to_delete, graph,
                   result, runs, born, hist>>

NextSnap ==
    \/ SnapCreate
    \/ SnapDelete
    \/ SnapWrite
    \/ SnapUndo
    \/ Tick

SpecSnap == InitSnap /\ [][NextSnap]_vars

-----------------------------------------------------------------------------
(* The scanner on its own: build_file_list with and without the cache,     *)
(* between edits of the project by hand, from every state of the cache     *)
(* file.                                                                   *)

\* No cache file, a corrupt one, one written for another root (a run from another
\* directory).
InitCaches == {NoFile, Corrupt,
               CacheOf(<<"src", SEP, "legacy">>, <<[path |-> F_LC, mtime |-> 0]>>)}

InitScan ==
    /\ tree \in InitTrees
    /\ cache \in InitCaches
    /\ store = {}
    /\ born = 0
    /\ clock = 0
    /\ stamp = 1
    /\ pc = "idle"
    /\ cmd = NoCmd
    /\ preview = <<>>
    /\ idx = 1
    /\ to_delete = <<>>
    /\ graph = NoGraph
    /\ result = "none"
    /\ runs = 0
    /\ hist = Hist0

\* A call of build_file_list(PROJECT_ROOT, use_cache); the list it returns is kept in
\* preview.  hist.steps tells whether the call before it was a scan too (a rescan of
\* an unchanged tree).
ScanRun ==
    \E use_cache \in BOOLEAN, cache_write_ok \in BOOLEAN :
        LET scan == build_file_list(PROJECT_ROOT, use_cache, cache_write_ok)
        IN /\ runs < MaxScans
           /\ runs' = runs + 1
           /\ preview' = scan.files
           /\ cache' = scan.cache
           /\ cmd' = Command("scan", <<>>, <<>>, FALSE, FALSE, use_cache)
           /\ hist' = [Hist0 EXCEPT !.steps = IF cmd.name = "scan" THEN <<"rescan">> ELSE <<>>]
           /\ UNCHANGED <<tree, store, clock, stamp, pc, idx, to_delete, graph, result, born>>

NextScan ==
    \/ ScanRun
    \/ SnapDelete
    \/ SnapWrite

SpecScan == InitScan /\ [][NextScan]_vars

-----------------------------------------------------------------------------
(* detect_dead_files on its own: applied to a file list and a referenced_by *)
(* map drawn from the paths below.  A path that does not start with "src"   *)
(* is one the walk returns when PROJECT_ROOT has fallen back to ".".        *)

DeadUniverse ==
    {<<"src", SEP, "a", DOT, "js">>,
     <<"src", SEP, "pages", SEP, "a", DOT, "js">>,
     <<"src", SEP, "Pages", SEP, "a", DOT, "js">>,
     <<"src", SEP, "routes", SEP, "b", DOT, "js">>,
     <<"pages", SEP, "a", DOT, "js">>,
     <<"src", SEP, "index", DOT, "ts">>,
     <<"src", SEP, "server", DOT, "js">>,
     <<"src", SEP, "m", DOT, "cs">>,
     <<"lib", SEP, "m", DOT, "cs">>,
     <<"src", SEP, "j", DOT, "java">>,
     <<"src", SEP, "legacy", SEP, "src", SEP, "j", DOT, "java">>,
     <<"lib", SEP, "j", DOT, "java">>}

InitDead ==
    /\ \E S \in SUBSET DeadUniverse :
          /\ Cardinality(S) \in 1..MaxFiles
          /\ \E R \in SUBSET S :
                graph = [files |-> SortPaths(S),
                         referenced_by |-> [f \in S |-> IF f \in R THEN {CHOOSE g \in S : TRUE}
                                                       ELSE {}],
                         imports_of |-> [f \in S |-> {}]]
    /\ tree = TreeA
    /\ cache = NoFile
    /\ store = {}
    /\ born = 0
    /\ clock = 0
    /\ stamp = 1
    /\ pc = "idle"
    /\ cmd = NoCmd
    /\ preview = <<>>
    /\ idx = 1
    /\ to_delete = <<>>
    /\ result = "none"
    /\ runs = 0
    /\ hist = Hist0

\* dead = detect_dead_files(all_files, referenced_by)
DeadRun ==
    /\ cmd.name = "none"
    /\ preview' = detect_dead_files(graph.files, graph.referenced_by)
    /\ cmd' = Command("dead_report", <<>>, <<>>, FALSE, FALSE, TRUE)
    /\ UNCHANGED <<tree, cache, store, clock, stamp, pc, idx, to_delete, graph, result,
                   runs, born, hist>>

SpecDead == InitDead /\ [][DeadRun]_vars

-----------------------------------------------------------------------------
(* resolve_import on its own: called twice with the same arguments, drawn   *)
(* from the sets below, the disk changing in between.  The known files are  *)
(* those of an earlier scan and need not be on the disk any more.           *)

KnownOrder == <<F_B, <<"src", SEP, "legacy", SEP, "b", DOT, "js">>, F_LC, F_LN,
                <<"src", SEP, "legacy", SEP, "new", SEP, "n", DOT, "cs">>>>

InitResolve ==
    /\ \E base_file \in {F_A, F_LC, F_M, F_LN},
          imp \in {S_B, S_UB, <<SPACE, DOT, SEP, "b", SPACE>>, <<SEP, "b">>,
                     <<SEP, "src", SEP, "b">>, <<"legacy", SEP, "c">>, <<"legacy", DOT, "n">>,
                     <<"legacy", SEP, "new", DOT, "n">>, <<"lodash", SEP, "fp">>},
          K \in SUBSET Range(KnownOrder) :
          /\ Cardinality(K) <= MaxFiles
          /\ cmd = Command("resolve", imp, base_file, FALSE, FALSE, TRUE)
          /\ graph = [NoGraph EXCEPT !.files = SelectSeq(KnownOrder, LAMBDA f : f \in K)]
    /\ tree = TreeA
    /\ cache = NoFile
    /\ store = {}
    /\ born = 0
    /\ clock = 0
    /\ stamp = 1
    /\ pc = "idle"
    /\ preview = <<>>
    /\ idx = 1
    /\ to_delete = <<>>
    /\ result = "none"
    /\ runs = 0
    /\ hist = Hist0

\* handler.resolve_import(f, imp, all_set), the handler being that of f's language.
Resolved == resolve_import(detect_language_for_file(cmd.b), cmd.b, cmd.a, Range(graph.files))

\* The first call.
ResolveRun ==
    /\ runs = 0
    /\ runs' = 1
    /\ preview' = <<Resolved>>
    /\ UNCHANGED <<tree, cache, store, clock, stamp, pc, cmd, idx, to_delete, graph, result,
                   born, hist>>

\* A file of the project is deleted between the calls.
ResolveUnlink ==
    /\ runs = 1
    /\ \E p \in DOMAIN tree : tree' = [q \in DOMAIN tree \ {p} |-> tree[q]]
    /\ UNCHANGED <<cache, store, clock, stamp, pc, cmd, preview, idx, to_delete, graph,
                   result, runs, born, hist>>

\* The second call, with the arguments of the first.
ResolveAgain ==
    /\ runs = 1
    /\ runs' = 2
    /\ to_delete' = <<Resolved>>
    /\ UNCHANGED <<tree, cache, store, clock, stamp, pc, cmd, preview, idx, graph, result,
                   born, hist>>

NextResolve == ResolveRun \/ ResolveUnlink \/ ResolveAgain

SpecResolve == InitResolve /\ [][NextResolve]_vars

-----------------------------------------------------------------------------
(* detect_broken_imports, applied to projects whose files import local     *)
(* files and packages from outside the project.                            *)

\* The inner loop of detect_broken_imports, lines 678-682: the imports of src that
\* resolve to nothing and look local.
BrokenImps(src, lang, imps, all_set) ==
    LET bad == SelectSeq(imps, LAMBDA imp :
                   /\ imp # <<>>
                   /\ resolve_import(lang, src, imp, all_set) = None
                   /\ \/ StartsWith(imp, <<DOT>>)
                      \/ HasTok(imp, SEP)
                      \/ (HasTok(imp, DOT) /\ lang \in {"java", "csharp"}))
    IN [i \in 1..Len(bad) |-> <<src, bad[i]>>]

\* The outer loop, lines 667-677: files without a language or that cannot be read are
\* passed over.
RECURSIVE BrokenFiles(_, _, _)
BrokenFiles(files, all_set, unreadable) ==
    IF files = <<>> THEN <<>>
    ELSE LET src == Head(files)
             lang == detect_language_for_file(src)
             here == IF lang = NoLang \/ ~Exists(src) \/ src \in unreadable THEN <<>>
                     ELSE BrokenImps(src, lang, extract_imports(lang, tree[src].text), all_set)
         IN here \o BrokenFiles(Tail(files), all_set, unreadable)

detect_broken_imports(use_cache, unreadable) ==
    LET scan == build_file_list(PROJECT_ROOT, use_cache, TRUE)
    IN [broken |-> BrokenFiles(scan.files, Range(scan.files), unreadable),
        cache |-> scan.cache]


\* The projects: src/a.js with one import, src/m.cs with one using directive or
\* absent, src/b.js and src/legacy/n.cs present or absent.
BrokenTrees ==
    {(F_A :> File(<<Imp(rx, js)>>)) @@ m @@ b @@ n :
        rx \in 1..NumRegex("javascript"),
        js \in {S_B, S_C, <<"legacy", SEP, "c">>, <<"lodash">>, <<"lodash", SEP, "fp">>,
                <<"@scope", SEP, "pkg">>, <<"@scope", SEP, "pkg", SEP, "sub">>},
        m \in {<<>>} \cup {F_M :> File(<<Imp(1, cs)>>) : cs \in {S_NS, <<"System", DOT, "Text">>}},
        b \in {<<>>, F_B :> File(<<>>)},
        n \in {<<>>, F_LN :> File(<<>>)}}

InitBroken ==
    /\ tree \in BrokenTrees
    /\ cache = NoFile
    /\ store = {}
    /\ born = 0
    /\ clock = 0
    /\ stamp = 1
    /\ pc = "idle"
    /\ cmd = NoCmd
    /\ preview = <<>>
    /\ idx = 1
    /\ to_delete = <<>>
    /\ graph = NoGraph
    /\ result = "none"
    /\ runs = 0
    /\ hist = Hist0

\* broken = detect_broken_imports(use_cache=use_cache), line 795.
BrokenRun ==
    \E use_cache \in BOOLEAN, unreadable \in {{}, {F_A}} :
        LET r == detect_broken_imports(use_cache, unreadable)
        IN /\ runs = 0
           /\ runs' = 1
           /\ preview' = r.broken
           /\ cache' = r.cache
           /\ cmd' = Command("broken", <<>>, <<>>, FALSE, FALSE, use_cache)
           /\ UNCHANGED <<tree, store, clock, stamp, pc, idx, to_delete, graph, result,
                          born, hist>>

SpecBroken == InitBroken /\ [][BrokenRun]_vars

-----------------------------------------------------------------------------
(* The program started in a directory without src: PROJECT_ROOT has fallen  *)
(* back to "." (lines 76-77), BACKUP_DIR is an entry of the project root,   *)
(* and the store holds the snapshots of earlier runs.  The paths of `tree`  *)
(* are those of the working directory.                                      *)

\* undo_last() with PROJECT_ROOT = ".".  os.listdir(PROJECT_ROOT) holds BACKUP_DIR:
\* unless its removal raises (stuck), the store is gone when os.listdir(last) is
\* called, which raises; else the entries of the snapshot are copied into ".".
undo_last_cwd(stuck) ==
    LET snaps == list_snapshots(store)
    IN IF snaps = <<>> THEN [ok |-> FALSE, tree |-> tree, store |-> store]
       ELSE LET last == snaps[1].tree
                left == [p \in {q \in DOMAIN tree : Split(q)[1] = stuck} |-> tree[p]]
                items == {relpath(q, PROJECT_ROOT) : q \in DOMAIN last}
            IN IF stuck # BACKUP_DIR
               THEN [ok |-> FALSE, tree |-> left, store |-> {}]
               ELSE [ok |-> TRUE,
                     tree |-> [p \in items |->
                                  last[CHOOSE q \in DOMAIN last : relpath(q, PROJECT_ROOT) = p]],
                     store |-> store]

InitFallback ==
    /\ tree \in
          {(<<"a", DOT, "js">> :> File(<<Imp(1, S_LC)>>)),
           (<<"legacy", SEP, "c", DOT, "js">> :> File(<<>>)),
           (<<"a", DOT, "js">> :> File(<<Imp(1, S_LC)>>))
              @@ (<<"legacy", SEP, "c", DOT, "js">> :> File(<<>>))}
    /\ store \in {S \in SUBSET OldSnaps : Cardinality(S) \in 1..MaxFiles}
    /\ born = ALLOW_UNDO_COUNT
    /\ InitCommon
    /\ hist = Hist0

\* The undo command.
FallbackUndo ==
    \E stuck \in {None, BACKUP_DIR, <<"legacy">>} :
        LET r == undo_last_cwd(stuck)
        IN /\ runs < MaxRuns
           /\ runs' = runs + 1
           /\ cmd' = Command("undo", <<>>, <<>>, FALSE, FALSE, TRUE)
           /\ tree' = r.tree
           /\ store' = r.store
           /\ result' = IF r.ok THEN "restored" ELSE "notrestored"
           /\ hist' = Hist0
           /\ UNCHANGED <<cache, clock, stamp, pc, preview, idx, to_delete, graph, born>>

SpecFallback == InitFallback /\ [][FallbackUndo]_vars

-----------------------------------------------------------------------------
(* comment_imports on its own, on projects whose src/a.js holds one or two  *)
(* of the import lines below.                                               *)

InitComment ==
    /\ LET lines == {Imp(1, S_LC), Imp(1, S_B), ImpAs(1, <<"legacy">>, S_B),
                      Imp2(2, S_B, S_LCJ)}
       IN \E l1 \in lines, l2 \in lines \cup {Code(<<"x">>)} :
          tree = (F_A :> File(<<l1, l2>>)) @@ (F_B :> File(<<>>)) @@ (F_LC :> File(<<>>))
    /\ store = {}
    /\ born = 0
    /\ InitCommon
    /\ hist = Hist0

SpecComment == InitComment /\ [][Begin_comment_imports \/ AskYesNo \/ Snapshot \/ Rewrite]_vars

-----------------------------------------------------------------------------
(* Properties *)

Mutating == {"comment_imports", "remove_imports", "remove_folder", "move"}
IsPrefix(a, b) == Len(a) <= Len(b) /\ SubSeq(b, 1, Len(a)) = a
Protocol(c) == IF c.yes THEN <<"preview", "snapshot", "mutate">>
               ELSE <<"preview", "confirm", "snapshot", "mutate">>
Keys == Range(graph.files)

\* C1: in comment-imports, remove-imports, remove-folder and move-and-fix, once the
\* snapshot creation of the invocation has failed, no project file is rewritten,
\* deleted or moved: the project is as it was when the invocation started.
C1_FailedSnapshotAborts ==
    (cmd.name \in Mutating /\ hist.snap = "failed") => tree = hist.tree0

\* C2: in every invocation of the four operations without dry-run the steps come in
\* the order preview, confirmation (left out exactly when auto-confirmed), snapshot,
\* mutation; the project differs from its state at the start only after a mutation
\* step, and then the snapshot step has been taken.
C2_FixedOrder ==
    (cmd.name \in Mutating /\ ~cmd.dry) =>
        /\ IsPrefix(hist.steps, Protocol(cmd))
        /\ tree # hist.tree0 => ("mutate" \in Range(hist.steps) /\ hist.snap # "none")

\* C2, its case: a confirmed move that went through all four steps and changed the project.
C2_Witness ==
    /\ cmd.name = "move" /\ ~cmd.dry /\ ~cmd.yes /\ pc = "idle"
    /\ hist.steps = <<"preview", "confirm", "snapshot", "mutate">>
    /\ tree # hist.tree0

\* C3, as amended: in dry-run mode the four operations leave every project file as
\* it was (none changed, created or deleted) and the snapshot store as it was; the
\* scan cache file alone may be created or rewritten.
C3_DryRunKeepsProject ==
    (cmd.name \in Mutating /\ cmd.dry) => (tree = hist.tree0 /\ store = hist.store0)

\* C3, as stated: in dry-run mode no file at all is changed, created or deleted.
C3_DryRunKeepsEveryFile ==
    (cmd.name \in Mutating /\ cmd.dry) =>
        (tree = hist.tree0 /\ store = hist.store0 /\ cache = hist.cache0)

\* C3, its case: a dry run of remove-imports with a non-empty preview has returned,
\* and it has rewritten the cache file.
C3_Witness ==
    /\ cmd.name = "remove_imports" /\ cmd.dry /\ pc = "idle"
    /\ preview # <<>>
    /\ cache # hist.cache0

\* C4: when a confirmed remove-imports run has finished with no I/O error, the files
\* it rewrote are exactly the files of the preview (which dry-run mode reports for
\* the same state).
C4_PreviewIsRewritten ==
    (cmd.name = "remove_imports" /\ ~cmd.dry /\ pc = "idle" /\ hist.snap # "none"
        /\ ~hist.raised)
    => hist.wrote = Range(preview)

\* C5: a cancel at a prompt is handled as a negative answer: the operation returns
\* from its own sequence, the process does not end inside the prompt.
C5_CancelIsNo ==
    hist.ans = "exit" => ~hist.exited

\* C6: in the graph analyze_project returns, imports_of and referenced_by have the
\* scanned file list as their key set, and every file in a value is a key.
C6_NodeSet ==
    cmd.name \in {"scan", "dead"} =>
        /\ DOMAIN graph.imports_of = Keys
        /\ DOMAIN graph.referenced_by = Keys
        /\ \A f \in Keys : graph.imports_of[f] \subseteq Keys /\ graph.referenced_by[f] \subseteq Keys

\* C6, its case: a graph with an edge, built from files of which one holds an import
\* that resolves to nothing.
C6_Witness ==
    /\ cmd.name = "scan"
    /\ \E f \in Keys : graph.imports_of[f] # {}
    /\ \E f \in Keys :
          /\ Exists(f)
          /\ LET imps == extract_imports(detect_language_for_file(f), tree[f].text)
             IN \E k \in 1..Len(imps) :
                   resolve_import(detect_language_for_file(f), f, imps[k], Keys) = None

\* C7: in the graph analyze_project returns, referenced_by is the transpose of
\* imports_of: g is in imports_of[f] exactly when f is in referenced_by[g].
C7_Transpose ==
    cmd.name \in {"scan", "dead"} =>
        \A f \in Keys, g \in Keys :
            (g \in graph.imports_of[f]) <=> (f \in graph.referenced_by[g])

\* C7, its case: a graph where one file imports another and a third file imports nothing.
C7_Witness ==
    /\ cmd.name \in {"scan", "dead"}
    /\ \E f \in Keys, g \in Keys : f # g /\ g \in graph.imports_of[f]
    /\ \E f \in Keys : graph.imports_of[f] = {}

\* C8: whatever create calls were made, failing ones included, the backup store
\* holds at most the retention count of snapshot directories.
C8_AtMostRetention ==
    Len(list_snapshots(store)) <= ALLOW_UNDO_COUNT

\* C9: list() is ordered by creation, newest first: its first element, the one
\* restoreLatest takes, is the snapshot created last.
C9_NewestFirst ==
    LET snaps == list_snapshots(store)
    IN \A i \in 1..Len(snaps), j \in 1..Len(snaps) : i < j => snaps[i].born > snaps[j].born

\* C10: when the last create call succeeded and undo_last then returns True, the
\* project holds exactly the files and contents it had at that create call.
C10_RoundTrip ==
    (cmd.name = "undo" /\ result = "restored" /\ hist.snap = "ok") => tree = hist.snapTree

\* What a scan without the cache returns for the tree as it is.
Uncached == Range(build_file_list(PROJECT_ROOT, FALSE, TRUE).files)

\* C11: a scan with the cache that follows another scan, with no change of the tree
\* in between, returns the same set of files as a scan without the cache.
C11_RescanSameAsUncached ==
    (cmd.name = "scan" /\ cmd.use_cache /\ hist.steps = <<"rescan">>)
    => Range(preview) = Uncached

\* C12: whatever scans and changes of the tree came before, a scan with the cache
\* returns the set of files a full walk of the tree returns.
C12_CacheNeverTruth ==
    (cmd.name = "scan" /\ cmd.use_cache) => Range(preview) = Range(Walk(PROJECT_ROOT))

\* The directory segments of a path, lower-cased.
DirSegments(f) == LET comps == Split(Lower(f)) IN {comps[i] : i \in 1..(Len(comps) - 1)}

\* The exemptions of the dead-file report: a pages or routes directory segment, a base
\* name starting with "index.", an entry-point base name, a namespace language's file
\* under a source-root segment.
NamespaceLanguages == {"java", "csharp"}
UnderSourceRoot(f) ==
    detect_language_for_file(f) \in NamespaceLanguages /\ <<"src">> \in DirSegments(f)
Exempt(f) ==
    \/ DirSegments(f) \cap {<<"pages">>, <<"routes">>} # {}
    \/ StartsWith(Lower(basename(f)), <<"index", DOT>>)
    \/ Lower(basename(f)) \in EntryNames
    \/ UnderSourceRoot(f)

\* C15: the dead-file report is, in sorted order, exactly the files with no incoming
\* edge that no exemption covers (stated for the file lists without a file of a
\* namespace language, whose source-root exemption is the matter of C16).
C15_DeadExactly ==
    (cmd.name = "dead_report"
        /\ \A f \in Keys : detect_language_for_file(f) \notin NamespaceLanguages) =>
        preview = SortPaths({f \in Keys : graph.referenced_by[f] = {} /\ ~Exempt(f)})

\* C16: a file of a namespace language (java, csharp) under a source-root segment,
\* the first component of the path included, is never in the dead-file report.
C16_SourceRootExempt ==
    cmd.name = "dead_report" => \A f \in Range(preview) : ~UnderSourceRoot(f)

\* The source of the move at hand was neither a file nor a directory when the command
\* started.
SourceAbsentAtStart ==
    LET abs_src == normpath(join(PROJECT_ROOT, cmd.a))
    IN \A p \in DOMAIN hist.tree0 : p # abs_src /\ ~StartsWith(p, abs_src \o <<SEP>>)

\* C13: a move whose source does not exist ends at once: no scan (the cache file is as
\* it was), no preview, no prompt, no snapshot, and the project and the store unchanged.
C13_MissingSourceAborts ==
    (cmd.name = "move" /\ SourceAbsentAtStart) =>
        /\ pc = "idle"
        /\ hist.steps = <<>>
        /\ hist.asked = 0
        /\ hist.snap = "none"
        /\ preview = <<>>
        /\ cache = hist.cache0
        /\ tree = hist.tree0
        /\ store = hist.store0

C13_Witness == cmd.name = "move" /\ SourceAbsentAtStart /\ ~cmd.dry /\ cmd.yes /\ runs = 1

\* C14: a confirmed move of an existing source that is not a dry run, whose snapshot
\* was taken and which the environment did not fail, ends with the source gone, the
\* destination there and every file of the preview rewritten.
C14_MoveComplete ==
    (cmd.name = "move" /\ ~cmd.dry /\ pc = "idle" /\ ~SourceAbsentAtStart
        /\ hist.snap = "ok" /\ ~hist.raised) =>
        LET abs_src == normpath(join(PROJECT_ROOT, cmd.a))
            abs_dest == normpath(join(PROJECT_ROOT, cmd.b))
        IN /\ ~SourceExists(abs_src)
           /\ SourceExists(abs_dest)
           /\ Range(preview) \subseteq hist.wrote

\* The call at hand: the stripped specifier, the language, the known files.
TheImp == Strip(cmd.a)
TheLang == detect_language_for_file(cmd.b)
Known == Range(graph.files)
RelativeShape == StartsWith(TheImp, <<DOT>>) \/ StartsWith(TheImp, <<SEP>>)
PathLikeShape == ~RelativeShape /\ HasTok(TheImp, SEP)
NamespaceShape == HasTok(TheImp, DOT) /\ TheLang \in NamespaceLanguages
PathLikeProbes == ProbeExt(normpath(join(PROJECT_ROOT, TheImp)), Extensions(TheLang), 1, Known)
NamespaceProbes ==
    ProbeNs(normpath(join(PROJECT_ROOT, Replace(TheImp, <<DOT>>, <<SEP>>))),
            Extensions(TheLang), 1, Known)

\* C18: resolve_import returns None or a known file, and a second call with the same
\* arguments returns what the first returned, whatever became of the disk in between.
C18_KnownOrNone ==
    /\ cmd.name = "resolve" /\ runs >= 1 => preview[1] \in Known \cup {None}
    /\ cmd.name = "resolve" /\ runs = 2 => to_delete = preview

\* C18, its case: two calls that return a file which was deleted between them.
C18_Witness ==
    /\ cmd.name = "resolve"
    /\ runs = 2
    /\ preview[1] # None
    /\ preview[1] \in DOMAIN hist.tree0
    /\ preview[1] \notin DOMAIN tree

C20_LeadingSlashFromRoot ==
    (cmd.name = "resolve" /\ runs >= 1 /\ StartsWith(TheImp, <<SEP>>)) =>
        LET candidate == normpath(join(PROJECT_ROOT, Tail(TheImp)))
            r == ProbeExt(candidate, Extensions(TheLang), 1, Known)
        IN preview[1] = IF r # None THEN r
                        ELSE IF candidate \in Known THEN candidate
                        ELSE None

\* A specifier that names a package from outside the project: a bare or scoped
\* package name, with or without a sub-path.
ExternalPackage(imp) == imp # <<>> /\ Head(imp) \in {"lodash", "@scope"}

\* C17: no pair of the broken-import report holds a specifier that names an external
\* package.
C17_NoExternalBroken ==
    cmd.name = "broken" => \A i \in 1..Len(preview) : ~ExternalPackage(preview[i][2])

\* C21: the undo command leaves every snapshot of the store as it was, wherever the
\* project root and the store are.
C21_UndoKeepsSnapshots ==
    cmd.name = "undo" => hist.store0 \subseteq store

\* The commands whose mutation is a loop of file rewrites.
Rewriting == {"comment_imports", "remove_imports", "move"}

\* C22: in comment-imports, remove-imports and the rewrite phase of move-and-fix, a
\* failing read or write of one file undoes nothing and stops nothing: the files
\* written before stay rewritten, every file the loop has passed was written, has
\* failed or needed no change, and the command ends only after the last file.
C22_NoRollbackNoStop ==
    (cmd.name \in Rewriting /\ pc \in {"rewrite", "fix", "idle"}
        /\ "mutate" \in Range(hist.steps)) =>
        /\ \A f \in hist.wrote :
              /\ f \in DOMAIN tree
              /\ f \in DOMAIN hist.tree0 => tree[f] # hist.tree0[f]
        /\ \A i \in 1..Len(preview) :
              i < idx => \/ preview[i] \in hist.wrote \cup hist.failed
                         \/ /\ preview[i] \in DOMAIN tree \cap DOMAIN hist.tree0
                            /\ tree[preview[i]] = hist.tree0[preview[i]]
        /\ pc = "idle" => idx = Len(preview) + 1

\* C22, its case: the read or write of the first file failed, and the second file
\* was rewritten after it.
C22_Witness ==
    /\ cmd.name \in Rewriting
    /\ pc = "idle"
    /\ Len(preview) >= 2
    /\ preview[1] \in hist.failed
    /\ preview[2] \in hist.wrote

\* C23: a confirmed comment-imports run that met no failure has commented out exactly
\* the import lines with a specifier that holds the folder, and has kept every other
\* line of every file as it was, in its place.
C23_CommentsExactly ==
    (cmd.name = "comment_imports" /\ ~cmd.dry /\ pc = "idle" /\ hist.snap = "ok"
        /\ ~hist.raised) =>
        \A f \in DOMAIN hist.tree0 :
            /\ f \in DOMAIN tree
            /\ Len(tree[f].text) = Len(hist.tree0[f].text)
            /\ \A i \in 1..Len(hist.tree0[f].text) :
                  LET old == hist.tree0[f].text[i]
                      new == tree[f].text[i]
                  IN IF old.rx > 0 /\ (Contains(old.spec, cmd.a) \/ Contains(old.second, cmd.a))
                     THEN new.cm = old.cm + 1
                     ELSE new = old

\* C24: a file that could not be read when the graph was built is a node with no
\* outgoing edge, and every readable file with an import that resolves to it has the
\* edge into it, in imports_of and in referenced_by.
C24_UnreadableIsTarget ==
    cmd.name = "scan" =>
        \A f \in hist.failed \cap Keys :
            /\ graph.imports_of[f] = {}
            /\ \A g \in Keys \ hist.failed :
                  LET lang == detect_language_for_file(g)
                      imps == IF lang = NoLang \/ g \notin DOMAIN hist.tree0 THEN <<>>
                              ELSE extract_imports(lang, hist.tree0[g].text)
                  IN (\E k \in 1..Len(imps) : resolve_import(lang, g, imps[k], Keys) = f) =>
                        (f \in graph.imports_of[g] /\ g \in graph.referenced_by[f])

\* C24, its case: an unreadable file that holds an import of its own and that another
\* file imports.
C24_Witness ==
    /\ cmd.name = "scan"
    /\ \E f \in hist.failed \cap Keys :
          /\ graph.referenced_by[f] # {}
          /\ f \in DOMAIN hist.tree0
          /\ extract_imports(detect_language_for_file(f), hist.tree0[f].text) # <<>>

\* C25: an undo called on an empty snapshot store returns False and leaves the
\* project as it was.
C25_NothingToRestore ==
    (cmd.name = "undo" /\ hist.store0 = {}) =>
        /\ result = "notrestored"
        /\ tree = hist.tree0
        /\ store = {}

\* C25, its case: an undo on an empty store, in a project that holds files and that
\* an earlier command has changed.
C25_Witness ==
    /\ cmd.name = "undo"
    /\ hist.store0 = {}
    /\ DOMAIN tree # {}
    /\ runs = 2

\* C26: the dead-file command deletes nothing but files of its report that were
\* selected (each one confirmed at its prompt, or all of them with --yes); it calls
\* create_snapshot before the first deletion; with --dry-run, an empty report or an
\* empty selection it takes no snapshot and deletes nothing.
C26_DeadDeletesSelected ==
    cmd.name = "dead" =>
        /\ Range(to_delete) \subseteq Range(preview)
        /\ DOMAIN tree \subseteq DOMAIN hist.tree0
        /\ (DOMAIN hist.tree0 \ DOMAIN tree) \subseteq Range(to_delete)
        /\ \A f \in DOMAIN tree : tree[f] = hist.tree0[f]
        /\ (cmd.yes /\ pc \in {"snapshot", "delete"}) => to_delete = preview
        /\ (~cmd.yes /\ hist.asked >= 1 /\ hist.ans # "yes") =>
              preview[hist.asked] \notin Range(to_delete)
        /\ ~cmd.yes => Len(to_delete) <= hist.asked
        /\ tree # hist.tree0 => (hist.snap # "none" /\ IsPrefix(<<"preview">>, hist.steps))
        /\ (cmd.dry \/ preview = <<>> \/ to_delete = <<>>) =>
              (hist.snap = "none" /\ store = hist.store0 /\ tree = hist.tree0)

\* C26, its case: of a report of two files or more, one was confirmed and deleted and
\* another was declined and is still there.
C26_Witness ==
    /\ cmd.name = "dead"
    /\ ~cmd.yes
    /\ pc = "idle"
    /\ DOMAIN tree # DOMAIN hist.tree0
    /\ \E f \in Range(preview) : f \notin Range(to_delete) /\ f \in DOMAIN tree

====
